---- MODULE Spec2Model ----
(***************************************************************************)
(* A model of federation/entities/base.py (the entity classes, their       *)
(* cooperative constructors and BaseEntity.validate) and of                *)
(* federation/entities/diaspora/entities.py (the Diaspora to_xml methods). *)
(*                                                                         *)
(* Python values are modelled as follows.  A str whose characters matter   *)
(* (guid, handle, target_handle, email, raw_content) is a tuple of         *)
(* one-character strings, "" being << >>; any other str is a TLA+ string.  *)
(* A list is a tuple, a dict is a function, a datetime is a natural number *)
(* of clock ticks.  An instance is a record holding its class (kind), its  *)
(* __dict__ (dict: the attributes set on the instance itself) and, as a    *)
(* history value, the clock reading at which it was constructed (born).    *)
(* An attribute that is not in the instance's __dict__ is read from the    *)
(* first class of the method resolution order that defines it.             *)
(***************************************************************************)
EXTENDS Integers, Sequences, FiniteSets, TLC

VARIABLES
    heap,      \* the live instances, in order of construction
    shared,    \* the mutable objects bound to class attributes
    now,       \* the clock (datetime.datetime.now())
    lastArgs,  \* the keyword arguments of the latest constructor call
    outcome,   \* what the latest validate() call on heap[1] did
    nval,      \* validate() calls made on heap[1] since it was constructed
    xml,       \* what the latest to_xml() call on heap[1] did
    actor,     \* the index of the instance the latest in-place change went through
    raw,       \* the raw_content given to the instance whose tags are read
    tagsOut    \* what the latest read of heap[1].tags gave

vars == <<heap, shared, now, lastArgs, outcome, nval, xml, actor, raw, tagsOut>>

\* ------------------------------------------------------------------ bounds

MaxEntities == 2   \* instances alive at once (SpecShare, SpecClock)
MaxClock == 2      \* clock ticks after the module was loaded
MaxValidate == 2   \* validate() calls on one unmodified instance
MaxLen == 4        \* characters of a raw_content under test

\* ------------------------------------------------------------- the classes

Range(s) == {s[i] : i \in 1..Len(s)}

\* The class statements: each class's bases, in the order written.
Bases ==
    [object |-> << >>,
     BaseEntity |-> <<"object">>,
     GUIDMixin |-> <<"BaseEntity">>,
     HandleMixin |-> <<"BaseEntity">>,
     PublicMixin |-> <<"BaseEntity">>,
     CreatedAtMixin |-> <<"BaseEntity">>,
     RawContentMixin |-> <<"BaseEntity">>,
     Post |-> <<"RawContentMixin", "GUIDMixin", "HandleMixin", "PublicMixin",
                "CreatedAtMixin", "BaseEntity">>,
     Image |-> <<"GUIDMixin", "HandleMixin", "PublicMixin", "CreatedAtMixin",
                 "BaseEntity">>,
     ParticipationMixin |-> <<"BaseEntity">>,
     Comment |-> <<"RawContentMixin", "GUIDMixin", "ParticipationMixin",
                   "CreatedAtMixin", "HandleMixin">>,
     Reaction |-> <<"GUIDMixin", "ParticipationMixin", "CreatedAtMixin",
                    "HandleMixin">>,
     Relationship |-> <<"CreatedAtMixin", "HandleMixin">>,
     Profile |-> <<"CreatedAtMixin", "HandleMixin", "RawContentMixin",
                   "PublicMixin", "GUIDMixin">>,
     DiasporaEntityMixin |-> <<"object">>,
     DiasporaComment |-> <<"DiasporaEntityMixin", "Comment">>,
     DiasporaPost |-> <<"DiasporaEntityMixin", "Post">>,
     DiasporaLike |-> <<"DiasporaEntityMixin", "Reaction">>,
     DiasporaRequest |-> <<"DiasporaEntityMixin", "Relationship">>,
     DiasporaProfile |-> <<"DiasporaEntityMixin", "Profile">>]

Classes == DOMAIN Bases

\* Python's C3 merge: repeatedly take the first head that is in no tail.
RECURSIVE Merge(_)
Merge(lists) ==
    LET ne == SelectSeq(lists, LAMBDA l : l # << >>)
    IN  IF ne = << >> THEN << >>
        ELSE LET good(i) == \A j \in 1..Len(ne) : Head(ne[i]) \notin Range(Tail(ne[j]))
                 idx == CHOOSE i \in 1..Len(ne) :
                            good(i) /\ \A k \in 1..(i - 1) : ~good(k)
                 h == Head(ne[idx])
             IN  <<h>> \o Merge([j \in 1..Len(ne) |->
                                    IF Head(ne[j]) = h THEN Tail(ne[j]) ELSE ne[j]])

\* The method resolution order of class c.
RECURSIVE Linearize(_)
Linearize(c) ==
    IF Bases[c] = << >> THEN <<c>>
    ELSE <<c>> \o Merge([i \in 1..Len(Bases[c]) |-> Linearize(Bases[c][i])]
                        \o <<Bases[c]>>)

MRO == [c \in Classes |-> Linearize(c)]

\* created_at = datetime.datetime.now() is evaluated once, when the class
\* statement runs: the clock reading at which the module was loaded.
ModuleLoadTime == 0

\* len(self.guid) < 16
MinGuidLen == 16

\* The class bodies: every name a class statement binds, with the value bound
\* to it ("method" for a function, "property" for a property).
ClassBody ==
    [object |-> [__init__ |-> "method"],
     BaseEntity |-> ("_required" :> << >>)
                    @@ [__init__ |-> "method", validate |-> "method"],
     GUIDMixin |-> [guid |-> << >>, __init__ |-> "method", validate_guid |-> "method"],
     HandleMixin |-> [handle |-> << >>, __init__ |-> "method",
                      validate_handle |-> "method"],
     PublicMixin |-> [public |-> FALSE],
     CreatedAtMixin |-> [created_at |-> ModuleLoadTime, __init__ |-> "method"],
     RawContentMixin |-> [raw_content |-> << >>, __init__ |-> "method",
                          tags |-> "property"],
     Post |-> [provider_display_name |-> "", location |-> "", photos |-> << >>],
     Image |-> [remote_path |-> "", remote_name |-> "", text |-> "",
                linked_type |-> "", linked_guid |-> << >>, height |-> 0, width |-> 0,
                __init__ |-> "method"],
     ParticipationMixin |->
         ("_participation_valid_values" :> <<"reaction", "subscription", "comment">>)
         @@ [target_guid |-> << >>, participation |-> "", __init__ |-> "method",
             validate_participation |-> "method"],
     Comment |-> [participation |-> "comment"],
     Reaction |-> ("_reaction_valid_values" :> <<"like">>)
                  @@ [participation |-> "reaction", reaction |-> "",
                      __init__ |-> "method", validate_reaction |-> "method"],
     Relationship |->
         ("_relationship_valid_values" :> <<"sharing", "following", "ignoring", "blocking">>)
         @@ [target_handle |-> << >>, relationship |-> "", __init__ |-> "method",
             validate_target_handle |-> "method", validate_relationship |-> "method"],
     Profile |-> [name |-> "", email |-> << >>,
                  image_urls |-> [small |-> "", medium |-> "", large |-> ""],
                  gender |-> "", location |-> "", nsfw |-> FALSE, tag_list |-> << >>,
                  public_key |-> "", __init__ |-> "method",
                  validate_email |-> "method"],
     DiasporaEntityMixin |-> [from_base |-> "method"],
     DiasporaComment |-> [author_signature |-> "", to_xml |-> "method"],
     DiasporaPost |-> [to_xml |-> "method"],
     DiasporaLike |-> [author_signature |-> "", reaction |-> "like",
                       to_xml |-> "method"],
     DiasporaRequest |-> [relationship |-> "sharing", to_xml |-> "method"],
     DiasporaProfile |-> [to_xml |-> "method"]]

\* The class attributes bound to a mutable object that code reaches through
\* an instance: the object lives in the variable shared.
SharedAttrs == {"_required", "photos", "tag_list", "image_urls"}

SharedInit ==
    [a \in SharedAttrs |->
        ClassBody[CHOOSE c \in Classes : a \in DOMAIN ClassBody[c]][a]]

\* The classes of kind's resolution order that bind attr, in that order.
Definers(kind, attr) ==
    SelectSeq(MRO[kind], LAMBDA c : attr \in DOMAIN ClassBody[c])

\* hasattr(self, attr)
hasattr(self, attr) ==
    attr \in DOMAIN self.dict \/ Definers(self.kind, attr) # << >>

\* getattr(self, attr) with the class-level objects being sh.
GetAttrIn(sh, self, attr) ==
    IF attr \in DOMAIN self.dict THEN self.dict[attr]
    ELSE IF attr \in SharedAttrs THEN sh[attr]
    ELSE ClassBody[Head(Definers(self.kind, attr))][attr]

getattr(self, attr) == GetAttrIn(shared, self, attr)

\* ------------------------------------------------------------ construction
\* A constructor step works on a world w: the instance under construction
\* (w.self) and the class-level objects (w.shared).

\* The dict d restricted to the keys in keep.
Restrict(d, keep) == [k \in (DOMAIN d) \cap keep |-> d[k]]

\* self._required += items: extend, in place, the list the name resolves to.
RequiredIAdd(w, items) ==
    IF "_required" \in DOMAIN w.self.dict
    THEN [w EXCEPT !.self.dict["_required"] = @ \o items]
    ELSE [w EXCEPT !.shared["_required"] = @ \o items]

\* list.remove(x): drop the first occurrence of x.
RemoveFirst(l, x) ==
    IF x \notin Range(l) THEN l
    ELSE LET i == CHOOSE i \in 1..Len(l) : l[i] = x /\ \A j \in 1..(i - 1) : l[j] # x
         IN  SubSeq(l, 1, i - 1) \o SubSeq(l, i + 1, Len(l))

\* BaseEntity.__init__ without its first statement: _required stays the
\* class-level list.
BaseEntity_init_NoFreshList(w, kwargs) ==
    LET taken == {k \in DOMAIN kwargs : hasattr(w.self, k)}
    IN  [w EXCEPT !.self.dict = Restrict(kwargs, taken) @@ @]

\* BaseEntity.__init__: a fresh _required list on the instance, then every
\* keyword argument that names an existing attribute is set on the instance.
BaseEntity_init(w, kwargs) ==
    LET fresh == [w.self EXCEPT !.dict = ("_required" :> << >>) @@ @]
        taken == {k \in DOMAIN kwargs : hasattr(fresh, k)}
    IN  [w EXCEPT !.self = [fresh EXCEPT !.dict = Restrict(kwargs, taken) @@ @]]

\* The statements that follow super().__init__() in each class's __init__.
GUIDMixin_init(w) == RequiredIAdd(w, <<"guid">>)

HandleMixin_init(w) == RequiredIAdd(w, <<"handle">>)

CreatedAtMixin_init(w) == RequiredIAdd(w, <<"created_at">>)

RawContentMixin_init(w) == RequiredIAdd(w, <<"raw_content">>)

Image_init(w) == RequiredIAdd(w, <<"remote_path", "remote_name">>)

ParticipationMixin_init(w) == RequiredIAdd(w, <<"target_guid", "participation">>)

Reaction_init(w) == RequiredIAdd(w, <<"reaction">>)

Relationship_init(w) == RequiredIAdd(w, <<"relationship", "target_handle">>)

\* Don't require a guid for Profile: self._required.remove("guid")
Profile_init(w) ==
    IF "_required" \in DOMAIN w.self.dict
    THEN [w EXCEPT !.self.dict["_required"] = RemoveFirst(@, "guid")]
    ELSE [w EXCEPT !.shared["_required"] = RemoveFirst(@, "guid")]

InitBody(c, w) ==
    CASE c = "GUIDMixin" -> GUIDMixin_init(w)
      [] c = "HandleMixin" -> HandleMixin_init(w)
      [] c = "CreatedAtMixin" -> CreatedAtMixin_init(w)
      [] c = "RawContentMixin" -> RawContentMixin_init(w)
      [] c = "Image" -> Image_init(w)
      [] c = "ParticipationMixin" -> ParticipationMixin_init(w)
      [] c = "Reaction" -> Reaction_init(w)
      [] c = "Relationship" -> Relationship_init(w)
      [] c = "Profile" -> Profile_init(w)

\* The cooperative chain: every __init__ but BaseEntity's first calls
\* super().__init__(*args, **kwargs), the next __init__ of the resolution
\* order, and then runs its own statements; BaseEntity's calls no other.
RECURSIVE RunInit(_, _, _)
RunInit(chain, w, kwargs) ==
    IF Head(chain) = "BaseEntity" THEN BaseEntity_init(w, kwargs)
    ELSE InitBody(Head(chain), RunInit(Tail(chain), w, kwargs))

\* kind(**kwargs), called at clock reading t with the class-level objects sh.
New(kind, kwargs, sh, t) ==
    RunInit(Definers(kind, "__init__"),
            [self |-> [kind |-> kind, dict |-> << >>, born |-> t], shared |-> sh],
            kwargs)

\* -------------------------------------------------------------- validation

\* Every attribute name of the classes, in the order sorted() gives them:
\* dir() returns its names sorted.
SortedNames ==
    <<"__init__", "_participation_valid_values", "_reaction_valid_values",
      "_relationship_valid_values", "_required", "author_signature",
      "created_at", "email", "from_base", "gender", "guid", "handle",
      "height", "image_urls", "linked_guid", "linked_type", "location",
      "name", "nsfw", "participation", "photos", "provider_display_name",
      "public", "public_key", "raw_content", "reaction", "relationship",
      "remote_name", "remote_path", "tag_list", "tags", "target_guid",
      "target_handle", "text", "to_xml", "validate", "validate_email",
      "validate_guid", "validate_handle", "validate_participation",
      "validate_reaction", "validate_relationship", "validate_target_handle",
      "width">>

\* attr.startswith("_")
StartsWithUnderscore(attr) ==
    attr \in {"__init__", "_participation_valid_values", "_reaction_valid_values",
              "_relationship_valid_values", "_required"}

\* dir(self): the names of the instance's __dict__ and of its classes, sorted.
dir(self) == SelectSeq(SortedNames, LAMBDA n : hasattr(self, n))

\* "validate_{attr}".format(attr=attr); the names formatted from the other
\* attributes are bound by no class.
ValidateName(attr) ==
    LET bound == [guid |-> "validate_guid", handle |-> "validate_handle",
                  participation |-> "validate_participation",
                  reaction |-> "validate_reaction",
                  target_handle |-> "validate_target_handle",
                  relationship |-> "validate_relationship",
                  email |-> "validate_email"]
    IN  IF attr \in DOMAIN bound THEN bound[attr] ELSE "validate_"

\* No exception raised.
NoError == ""

\* dirty_validators' Email().is_valid(value): one "@" with text on both sides.
Email_is_valid(value) ==
    /\ Cardinality({i \in 1..Len(value) : value[i] = "@"}) = 1
    /\ value[1] # "@"
    /\ value[Len(value)] # "@"

\* Each validate_<attr> gives the message of the ValueError it raises, or NoError.
validate_guid_OffByOne(self) ==
    IF getattr(self, "guid") # << >> /\ Len(getattr(self, "guid")) <= MinGuidLen
    THEN "GUID must be at least 16 characters" ELSE NoError

validate_guid(self) ==
    IF getattr(self, "guid") # << >> /\ Len(getattr(self, "guid")) < MinGuidLen
    THEN "GUID must be at least 16 characters" ELSE NoError

validate_handle(self) ==
    IF ~Email_is_valid(getattr(self, "handle")) THEN "Handle is not valid" ELSE NoError

validate_participation(self) ==
    IF getattr(self, "participation")
           \notin Range(getattr(self, "_participation_valid_values"))
    THEN "participation should be one of: reaction, subscription, comment"
    ELSE NoError

validate_reaction_Stub(self) == NoError

validate_reaction(self) ==
    IF getattr(self, "reaction") \notin Range(getattr(self, "_reaction_valid_values"))
    THEN "reaction should be one of: like" ELSE NoError

validate_target_handle(self) ==
    IF ~Email_is_valid(getattr(self, "target_handle"))
    THEN "Target handle is not valid" ELSE NoError

validate_relationship(self) ==
    IF getattr(self, "relationship")
           \notin Range(getattr(self, "_relationship_valid_values"))
    THEN "relationship should be one of: sharing, following, ignoring, blocking"
    ELSE NoError

validate_email(self) ==
    IF getattr(self, "email") # << >> /\ ~Email_is_valid(getattr(self, "email"))
    THEN "Email is not valid" ELSE NoError

\* getattr(self, name)()
CallValidator(name, self) ==
    CASE name = "validate_guid" -> validate_guid(self)
      [] name = "validate_handle" -> validate_handle(self)
      [] name = "validate_participation" -> validate_participation(self)
      [] name = "validate_reaction" -> validate_reaction(self)
      [] name = "validate_target_handle" -> validate_target_handle(self)
      [] name = "validate_relationship" -> validate_relationship(self)
      [] name = "validate_email" -> validate_email(self)

\* The loop of validate over attrs: the first validator that raises ends it.
\* type(getattr(self, attr)) is never the string "method", so every public
\* name is looked at, methods included; reading an attribute, the tags
\* property among them, changes nothing.
RECURSIVE ValidateLoop(_, _)
ValidateLoop(attrs, self) ==
    IF attrs = << >> THEN NoError
    ELSE LET name == ValidateName(Head(attrs))
             err == IF hasattr(self, name) THEN CallValidator(name, self)
                    ELSE NoError
         IN  IF err # NoError THEN err ELSE ValidateLoop(Tail(attrs), self)

MissingRequiredMsg == "Not all required attributes fulfilled. Required: {required}"

\* validate, were it to consume the _required list it checks.
validate_ClearingRequired(self) ==
    LET public == SelectSeq(dir(self), LAMBDA n : ~StartsWithUnderscore(n))
        err == ValidateLoop(public, self)
        cleared == [self EXCEPT !.dict = ("_required" :> << >>) @@ @]
    IN  IF err # NoError
        THEN [self |-> cleared, raised |-> TRUE, msg |-> err, named |-> {}]
        ELSE [self |-> cleared, raised |-> FALSE, msg |-> NoError, named |-> {}]

\* BaseEntity.validate: the instance as the call leaves it, whether the call
\* raised, the message raised and the names the message lists.
validate(self) ==
    LET public == SelectSeq(dir(self), LAMBDA n : ~StartsWithUnderscore(n))
        err == ValidateLoop(public, self)
        attributes == Range(public)
        required == Range(getattr(self, "_required"))
    IN  IF err # NoError
        THEN [self |-> self, raised |-> TRUE, msg |-> err, named |-> {}]
        ELSE IF ~(required \subseteq attributes)
        THEN [self |-> self, raised |-> TRUE, msg |-> MissingRequiredMsg,
              named |-> required]
        ELSE [self |-> self, raised |-> FALSE, msg |-> NoError, named |-> {}]

\* ----------------------------------------------------------- serialization
\* A to_xml gives [raised, error, element]: the exception it raised, or the
\* element it returned (a tag and its children, each a tag and a text).

\* diaspora/utils.format_dt: the one fixed textual pattern of a timestamp.
format_dt(dt) == [pattern |-> "%Y-%m-%d %H:%M:%S %Z", of |-> dt]

\* etree.Element(tag)
Element(tag) == [tag |-> tag, children |-> << >>]

\* diaspora/utils.struct_to_xml: one child per entry of struct, in its order,
\* named by the entry's key and holding the entry's value as text.
struct_to_xml(element, struct) ==
    [element EXCEPT !.children =
        @ \o [i \in 1..Len(struct) |-> [tag |-> struct[i][1], text |-> struct[i][2]]]]

Returned(element) == [raised |-> FALSE, error |-> NoError, element |-> element]

Raised(error) == [raised |-> TRUE, error |-> error, element |-> Element("")]

DiasporaComment_to_xml(self) ==
    Returned(struct_to_xml(Element("comment"),
        <<<<"guid", getattr(self, "guid")>>,
          <<"parent_guid", getattr(self, "target_guid")>>,
          <<"author_signature", getattr(self, "author_signature")>>,
          <<"text", getattr(self, "raw_content")>>,
          <<"diaspora_handle", getattr(self, "handle")>>>>))

DiasporaPost_to_xml(self) ==
    Returned(struct_to_xml(Element("status_message"),
        <<<<"raw_message", getattr(self, "raw_content")>>,
          <<"guid", getattr(self, "guid")>>,
          <<"diaspora_handle", getattr(self, "handle")>>,
          <<"public", IF getattr(self, "public") THEN "true" ELSE "false">>,
          <<"created_at", format_dt(getattr(self, "created_at"))>>>>))

DiasporaLike_to_xml(self) ==
    Returned(struct_to_xml(Element("like"),
        <<<<"target_type", "Post">>,
          <<"guid", getattr(self, "guid")>>,
          <<"parent_guid", getattr(self, "target_guid")>>,
          <<"author_signature", getattr(self, "author_signature")>>,
          <<"positive", "true">>,
          <<"diaspora_handle", getattr(self, "handle")>>>>))

DiasporaRequest_to_xml(self) ==
    Returned(struct_to_xml(Element("request"),
        <<<<"sender_handle", getattr(self, "handle")>>,
          <<"recipient_handle", getattr(self, "target_handle")>>>>))

\* self.image_urls[size] raises KeyError when the map has no such key; the
\* struct list is built in the order written, so the first missing one raises.
DiasporaProfile_to_xml(self) ==
    LET urls == getattr(self, "image_urls")
        sizes == <<"large", "small", "medium">>
        missing == SelectSeq(sizes, LAMBDA k : k \notin DOMAIN urls)
    IN  IF missing # << >> THEN Raised("KeyError")
        ELSE Returned(struct_to_xml(Element("profile"),
            <<<<"diaspora_handle", getattr(self, "handle")>>,
              <<"first_name", getattr(self, "name")>>,
              <<"last_name", "">>,
              <<"image_url", urls["large"]>>,
              <<"image_url_small", urls["small"]>>,
              <<"image_url_medium", urls["medium"]>>,
              <<"gender", getattr(self, "gender")>>,
              <<"bio", getattr(self, "raw_content")>>,
              <<"location", getattr(self, "location")>>,
              <<"searchable", IF getattr(self, "public") THEN "true" ELSE "false">>,
              <<"nsfw", IF getattr(self, "nsfw") THEN "true" ELSE "false">>,
              <<"tag_string", [i \in 1..Len(getattr(self, "tag_list")) |->
                                  <<"#", getattr(self, "tag_list")[i]>>]>>>>))

\* self.to_xml(), resolved by the instance's class.
to_xml(self) ==
    CASE self.kind = "DiasporaComment" -> DiasporaComment_to_xml(self)
      [] self.kind = "DiasporaPost" -> DiasporaPost_to_xml(self)
      [] self.kind = "DiasporaLike" -> DiasporaLike_to_xml(self)
      [] self.kind = "DiasporaRequest" -> DiasporaRequest_to_xml(self)
      [] self.kind = "DiasporaProfile" -> DiasporaProfile_to_xml(self)

\* ------------------------------------------------------------- the inputs

\* A str of n characters.
Chars(n) == [i \in 1..n |-> "g"]

\* A datetime the caller supplies: later than every clock reading.
CallerTime == MaxClock + 1

\* The values a caller supplies for each keyword argument.
Supplied ==
    [guid |-> {Chars(MinGuidLen - 1), Chars(MinGuidLen)},
     target_guid |-> {Chars(MinGuidLen)},
     handle |-> {<<"a">>, <<"a", "@", "b">>},
     target_handle |-> {<<"a">>, <<"a", "@", "b">>},
     email |-> {<<"a">>, <<"a", "@", "b">>},
     raw_content |-> {<<"#", "t">>},
     created_at |-> {CallerTime},
     public |-> {TRUE},
     nsfw |-> {TRUE},
     participation |-> {"subscription", "bogus"},
     reaction |-> {"like", "dislike"},
     relationship |-> {"blocking", "spying"},
     author_signature |-> {"sig"},
     name |-> {"Bob"},
     remote_path |-> {"path"},
     remote_name |-> {"name"},
     image_urls |-> {[small |-> "s", medium |-> "m", large |-> "l"], [small |-> "s"]},
     tag_list |-> {<<"socialfederation", "federation">>},
     photos |-> {<<"p">>},
     nickname |-> {"x"}]

NoKwargs == [k \in {} |-> k]

\* Every dict that gives some of fields a supplied value.
RECURSIVE KwargsOver(_)
KwargsOver(fields) ==
    IF fields = << >> THEN {NoKwargs}
    ELSE LET rest == KwargsOver(Tail(fields))
         IN  rest \cup {(Head(fields) :> v) @@ r : r \in rest, v \in Supplied[Head(fields)]}

\* The keyword arguments tried on each class; nickname names no attribute.
SpecFields ==
    [Post |-> <<"raw_content", "guid", "handle", "public", "created_at", "nickname">>,
     DiasporaPost |-> <<"raw_content", "guid", "handle", "public", "created_at">>,
     Image |-> <<"guid", "handle", "created_at", "remote_path", "remote_name">>,
     Comment |-> <<"raw_content", "guid", "target_guid", "participation",
                   "created_at", "handle">>,
     DiasporaComment |-> <<"raw_content", "guid", "target_guid", "participation",
                           "handle", "author_signature">>,
     Reaction |-> <<"guid", "target_guid", "participation", "created_at", "handle",
                    "reaction">>,
     DiasporaLike |-> <<"guid", "target_guid", "participation", "handle", "reaction",
                        "author_signature">>,
     Relationship |-> <<"handle", "created_at", "relationship", "target_handle">>,
     DiasporaRequest |-> <<"handle", "created_at", "relationship", "target_handle">>,
     Profile |-> <<"created_at", "handle", "raw_content", "guid", "email">>,
     DiasporaProfile |-> <<"handle", "raw_content", "public", "guid", "email",
                           "image_urls", "nsfw", "tag_list", "name">>]

Kinds == DOMAIN SpecFields

SpecKwargs == [k \in Kinds |-> KwargsOver(SpecFields[k])]

\* ------------------------------------------------- one instance's life (Spec)

NotCalled == [raised |-> FALSE, msg |-> "not called", named |-> {}]

NotRead == [read |-> FALSE, value |-> {}]

NotSerialized == [raised |-> FALSE, error |-> "not called", element |-> Element("")]

Init ==
    /\ heap = << >>
    /\ shared = SharedInit
    /\ now = ModuleLoadTime
    /\ lastArgs = NoKwargs
    /\ outcome = NotCalled
    /\ nval = 0
    /\ xml = NotSerialized
    /\ actor = 0
    /\ raw = << >>
    /\ tagsOut = NotRead

\* e = kind(**kwargs)
Construct(kind, kwargs) ==
    /\ heap = << >>
    /\ LET w == New(kind, kwargs, shared, now)
       IN  /\ heap' = <<w.self>>
           /\ shared' = w.shared
    /\ lastArgs' = kwargs
    /\ UNCHANGED <<now, outcome, nval, xml, actor, raw, tagsOut>>

\* e.validate()
Validate ==
    /\ heap # << >>
    /\ nval < MaxValidate
    /\ LET r == validate(heap[1])
       IN  /\ heap' = <<r.self>>
           /\ outcome' = [raised |-> r.raised, msg |-> r.msg, named |-> r.named]
    /\ nval' = nval + 1
    /\ UNCHANGED <<shared, now, lastArgs, xml, actor, raw, tagsOut>>

\* e.to_xml()
ToXml ==
    /\ heap # << >>
    /\ hasattr(heap[1], "to_xml")
    /\ xml' = to_xml(heap[1])
    /\ UNCHANGED <<heap, shared, now, lastArgs, outcome, nval, actor, raw, tagsOut>>

\* The caller drops the instance.
Discard ==
    /\ heap # << >>
    /\ heap' = << >>
    /\ lastArgs' = NoKwargs
    /\ outcome' = NotCalled
    /\ nval' = 0
    /\ xml' = NotSerialized
    /\ UNCHANGED <<shared, now, actor, raw, tagsOut>>

Next ==
    \/ \E kind \in Kinds : \E kwargs \in SpecKwargs[kind] : Construct(kind, kwargs)
    \/ Validate
    \/ ToXml
    \/ Discard

Spec == Init /\ [][Next]_vars

\* --------------------------------------------- properties of one instance

\* The attributes that hold a str, and the empty str of each.
EmptyStr ==
    [guid |-> << >>, target_guid |-> << >>, handle |-> << >>, target_handle |-> << >>,
     raw_content |-> << >>, reaction |-> "", relationship |-> "", participation |-> "",
     remote_path |-> "", remote_name |-> ""]

\* The required-field set the specification gives each entity kind.
StatedRequired ==
    LET post == {"raw_content", "guid", "handle", "created_at"}
        comment == {"raw_content", "guid", "target_guid", "participation",
                    "created_at", "handle"}
        reaction == {"guid", "target_guid", "participation", "created_at", "handle",
                     "reaction"}
        relationship == {"created_at", "handle", "relationship", "target_handle"}
        profile == {"created_at", "handle", "raw_content"}
    IN  [Post |-> post, DiasporaPost |-> post,
         Image |-> {"guid", "handle", "created_at", "remote_path", "remote_name"},
         Comment |-> comment, DiasporaComment |-> comment,
         Reaction |-> reaction, DiasporaLike |-> reaction,
         Relationship |-> relationship, DiasporaRequest |-> relationship,
         Profile |-> profile, DiasporaProfile |-> profile]

\* The closed domain the specification gives each enumerated-kind field.
StatedDomain ==
    [participation |-> {"reaction", "subscription", "comment"},
     reaction |-> {"like"},
     relationship |-> {"sharing", "following", "ignoring", "blocking"}]

Validated == heap # << >> /\ nval >= 1

\* Every validation rule of e passes, the rule of field f aside.
OthersValid(e, f) ==
    \A a \in Range(dir(e)) \ {f} :
        hasattr(e, ValidateName(a)) => CallValidator(ValidateName(a), e) = NoError

\* C1: validate() on an instance whose required field X was not supplied (X
\* holds its empty default, every other field valid) fails with the
\* missing-required error naming X; stated here by what that error implies:
\* the call raises, so that a Post with a valid handle and raw_content and no
\* guid does not validate.
C1_MissingRequiredIsReported ==
    Validated =>
        \A X \in StatedRequired[heap[1].kind] \cap DOMAIN EmptyStr :
            (/\ X \notin DOMAIN lastArgs
             /\ getattr(heap[1], X) = EmptyStr[X]
             /\ OthersValid(heap[1], X))
            => outcome.raised

\* C3: an enumerated-kind field stores whatever value the constructor was
\* given, in its domain or not, and validate() raises if and only if the
\* stored value is outside the field's domain, the other fields being valid.
C3_EnumeratedFieldCheckedByValidateOnly ==
    heap # << >> =>
        \A f \in DOMAIN StatedDomain :
            hasattr(heap[1], f) =>
                /\ f \in DOMAIN lastArgs => getattr(heap[1], f) = lastArgs[f]
                /\ (nval >= 1 /\ OthersValid(heap[1], f))
                   => (outcome.raised <=> getattr(heap[1], f) \notin StatedDomain[f])

C3_Witness ==
    /\ Validated
    /\ heap[1].kind = "Reaction"
    /\ "reaction" \in DOMAIN lastArgs
    /\ getattr(heap[1], "reaction") = "dislike"
    /\ OthersValid(heap[1], "reaction")
    /\ outcome.raised

GuidMsg == "GUID must be at least 16 characters"

\* C4 as claimed: validate() fails whenever the guid has fewer than 16
\* characters, and the guid rule raises nothing for 16 characters or more.
C4_ShortGuidRejected ==
    (Validated /\ hasattr(heap[1], "guid")) =>
        LET guid == getattr(heap[1], "guid")
        IN  /\ Len(guid) < 16 => (outcome.raised /\ outcome.msg # MissingRequiredMsg)
            /\ Len(guid) >= 16 => outcome.msg # GuidMsg

\* C4 as amended: validate() fails with an invalid-field error whenever the
\* guid is non-empty and has fewer than 16 characters, and the guid rule
\* raises nothing when the guid is empty or has 16 characters or more.
C4_NonEmptyShortGuidRejected ==
    (Validated /\ hasattr(heap[1], "guid")) =>
        LET guid == getattr(heap[1], "guid")
        IN  /\ (guid # << >> /\ Len(guid) < 16)
               => (outcome.raised /\ outcome.msg # MissingRequiredMsg)
            /\ (guid = << >> \/ Len(guid) >= 16) => outcome.msg # GuidMsg

C4_Witness ==
    /\ Validated
    /\ hasattr(heap[1], "guid")
    /\ Len(getattr(heap[1], "guid")) = 15
    /\ outcome.msg = GuidMsg

\* The element names the specification fixes for each protocol entity kind.
StatedElements ==
    [DiasporaPost |-> <<"raw_message", "guid", "diaspora_handle", "public", "created_at">>,
     DiasporaComment |-> <<"guid", "parent_guid", "author_signature", "text",
                           "diaspora_handle">>,
     DiasporaLike |-> <<"target_type", "guid", "parent_guid", "author_signature",
                        "positive", "diaspora_handle">>,
     DiasporaRequest |-> <<"sender_handle", "recipient_handle">>,
     DiasporaProfile |-> <<"diaspora_handle", "first_name", "last_name", "image_url",
                           "image_url_small", "image_url_medium", "gender", "bio",
                           "location", "searchable", "nsfw", "tag_string">>]

\* The elements rendered from a boolean field, and that field.
BooleanElements == [public |-> "public", searchable |-> "public", nsfw |-> "nsfw"]

Serialized == heap # << >> /\ xml # NotSerialized

\* The text of the child of the returned element that is named tag.
TextOf(tag) ==
    LET c == xml.element.children
    IN  c[CHOOSE i \in 1..Len(c) : c[i].tag = tag].text

\* C5: for every protocol entity kind and every combination of field values
\* to_xml() emits exactly the kind's fixed sequence of element names, and a
\* boolean element holds "true" or "false" as its source field is true or not.
C5_FixedElementOrder ==
    Serialized =>
        /\ ~xml.raised
        /\ [i \in 1..Len(xml.element.children) |-> xml.element.children[i].tag]
               = StatedElements[heap[1].kind]
        /\ \A b \in DOMAIN BooleanElements :
               b \in Range(StatedElements[heap[1].kind]) =>
                   TextOf(b) = IF getattr(heap[1], BooleanElements[b]) = TRUE
                               THEN "true" ELSE "false"

\* The element that carries each required str field of a protocol kind.
ElementOfField ==
    [DiasporaPost |-> [raw_content |-> "raw_message", guid |-> "guid",
                       handle |-> "diaspora_handle"],
     DiasporaComment |-> [guid |-> "guid", target_guid |-> "parent_guid",
                          raw_content |-> "text", handle |-> "diaspora_handle"],
     DiasporaLike |-> [guid |-> "guid", target_guid |-> "parent_guid",
                       handle |-> "diaspora_handle"],
     DiasporaRequest |-> [handle |-> "sender_handle",
                          target_handle |-> "recipient_handle"],
     DiasporaProfile |-> [handle |-> "diaspora_handle", raw_content |-> "bio"]]

\* C7: to_xml() raises for no entity the constructor can produce, validated
\* or not, and a required field left unset is rendered as an empty element.
C7_ToXmlNeverRaises ==
    Serialized =>
        /\ ~xml.raised
        /\ \A f \in DOMAIN ElementOfField[heap[1].kind] :
               f \notin DOMAIN heap[1].dict
                   => TextOf(ElementOfField[heap[1].kind][f]) = EmptyStr[f]

\* C8: a validate() call, returning or raising, leaves the instance's fields
\* and _required list and the class-level objects as they were, and a second
\* call on the unmodified instance ends as the first did.
C8_ValidateIsPureAndIdempotent ==
    [][nval' = nval + 1 =>
          /\ heap' = heap
          /\ shared' = shared
          /\ nval >= 1 => outcome' = outcome]_vars

C8_Witness ==
    /\ heap # << >>
    /\ nval = 2
    /\ outcome.raised
    /\ getattr(heap[1], "_required") # << >>

\* ------------------------------------------------ derived tags (SpecTags)

\* str.split(): the maximal runs of non-whitespace characters, in order.
RECURSIVE SplitFrom(_, _, _)
SplitFrom(s, word, words) ==
    LET closed == IF word = << >> THEN words ELSE Append(words, word)
    IN  IF s = << >> THEN closed
        ELSE IF Head(s) = " " THEN SplitFrom(Tail(s), << >>, closed)
        ELSE SplitFrom(Tail(s), Append(word, Head(s)), words)

split(s) == SplitFrom(s, << >>, << >>)

\* str.strip(chars): drop the leading and the trailing characters in chars.
RECURSIVE lstrip(_, _)
lstrip(word, chars) ==
    IF word # << >> /\ Head(word) \in chars THEN lstrip(Tail(word), chars) ELSE word

RECURSIVE rstrip(_, _)
rstrip(word, chars) ==
    IF word # << >> /\ word[Len(word)] \in chars
    THEN rstrip(SubSeq(word, 1, Len(word) - 1), chars) ELSE word

strip(word, chars) == rstrip(lstrip(word, chars), chars)

\* word.startswith(prefix), for a prefix of one character
startswith(word, prefix) == word # << >> /\ Head(word) = prefix

\* RawContentMixin.tags
tags(self) ==
    IF getattr(self, "raw_content") = << >> THEN {}
    ELSE {strip(word, {"#"}) :
            word \in {w \in Range(split(getattr(self, "raw_content"))) :
                         startswith(w, "#")}}

Alphabet == {"#", "a", " "}

RECURSIVE StringsUpTo(_)
StringsUpTo(n) ==
    IF n = 0 THEN {<< >>}
    ELSE LET shorter == StringsUpTo(n - 1)
         IN  shorter \cup {Append(s, c) : s \in shorter, c \in Alphabet}

InitTags ==
    /\ heap = << >>
    /\ shared = SharedInit
    /\ now = ModuleLoadTime
    /\ lastArgs = NoKwargs
    /\ outcome = NotCalled
    /\ nval = 0
    /\ xml = NotSerialized
    /\ actor = 0
    /\ raw \in StringsUpTo(MaxLen)
    /\ tagsOut = NotRead

\* e = kind(raw_content=raw)
TagsConstruct(kind) ==
    /\ heap = << >>
    /\ LET w == New(kind, [raw_content |-> raw], shared, now)
       IN  /\ heap' = <<w.self>>
           /\ shared' = w.shared
    /\ lastArgs' = [raw_content |-> raw]
    /\ UNCHANGED <<now, outcome, nval, xml, actor, raw, tagsOut>>

\* e.tags
TagsRead ==
    /\ heap # << >>
    /\ tagsOut' = [read |-> TRUE, value |-> tags(heap[1])]
    /\ UNCHANGED <<heap, shared, now, lastArgs, outcome, nval, xml, actor, raw>>

NextTags ==
    \/ \E kind \in {"Post", "Comment", "Profile"} : TagsConstruct(kind)
    \/ TagsRead

SpecTags == InitTags /\ [][NextTags]_vars

\* C6: tags is exactly the set of the whitespace-separated tokens of
\* raw_content that begin with "#", each without that one leading "#" and
\* otherwise whole; empty raw_content gives the empty set.
C6_TagsStripOnlyThePrefix ==
    tagsOut.read =>
        tagsOut.value = {Tail(w) : w \in {t \in Range(split(raw)) : t[1] = "#"}}

\* --------------------------------------- constructions in time (SpecClock)

BaseKinds == {"Post", "Image", "Comment", "Reaction", "Relationship", "Profile"}

\* The clock advances.
Tick ==
    /\ now < ModuleLoadTime + MaxClock
    /\ now' = now + 1
    /\ UNCHANGED <<heap, shared, lastArgs, outcome, nval, xml, actor, raw, tagsOut>>

\* kind(**kwargs), the instance being kept.
ClockNew(kind, kwargs) ==
    /\ Len(heap) < MaxEntities
    /\ LET w == New(kind, kwargs, shared, now)
       IN  /\ heap' = Append(heap, w.self)
           /\ shared' = w.shared
    /\ lastArgs' = kwargs
    /\ UNCHANGED <<now, outcome, nval, xml, actor, raw, tagsOut>>

\* The keyword arguments tried on each class.
ClockFields ==
    [Post |-> <<"created_at">>, Image |-> <<"created_at">>,
     Comment |-> <<"created_at">>, Reaction |-> <<"created_at">>,
     Relationship |-> <<"created_at">>, Profile |-> <<"created_at", "guid">>]

NextClock ==
    \/ Tick
    \/ \E kind \in BaseKinds : \E kwargs \in KwargsOver(ClockFields[kind]) :
           ClockNew(kind, kwargs)

SpecClock == Init /\ [][NextClock]_vars

\* C2: whatever was constructed before, each instance's _required holds
\* exactly the names the specification states for its kind (Profile without
\* guid), and holds each once.
C2_RequiredIsTheStatedSet ==
    \A i \in DOMAIN heap :
        LET required == getattr(heap[i], "_required")
        IN  /\ Range(required) = StatedRequired[heap[i].kind]
            /\ Cardinality(Range(required)) = Len(required)

C2_Witness ==
    /\ Len(heap) = 2
    /\ heap[1].kind = "Post"
    /\ heap[2].kind = "Profile"
    /\ "guid" \notin Range(getattr(heap[2], "_required"))
    /\ "guid" \in Range(getattr(heap[1], "_required"))

\* C9: an instance constructed without created_at has its own construction
\* time as created_at, so that two such instances constructed at different
\* times differ in created_at.
C9_CreatedAtIsConstructionTime ==
    \A i \in DOMAIN heap :
        "created_at" \notin DOMAIN heap[i].dict =>
            /\ getattr(heap[i], "created_at") = heap[i].born
            /\ \A j \in DOMAIN heap :
                   ("created_at" \notin DOMAIN heap[j].dict /\ heap[j].born # heap[i].born)
                   => getattr(heap[j], "created_at") # getattr(heap[i], "created_at")

\* ------------------------------------- in-place changes (SpecShare)

\* The object that attr of heap[i] resolves to is changed in place and holds
\* value afterwards: the instance's own object when it has one, else the
\* class-level object.
InPlace(i, attr, value) ==
    IF attr \in DOMAIN heap[i].dict
    THEN /\ heap' = [heap EXCEPT ![i].dict[attr] = value]
         /\ shared' = shared
    ELSE /\ shared' = [shared EXCEPT ![attr] = value]
         /\ heap' = heap

ShareFields ==
    [Post |-> <<"photos">>, Image |-> << >>, Comment |-> << >>, Reaction |-> << >>,
     Relationship |-> << >>, Profile |-> <<"tag_list", "image_urls">>]

\* kind(**kwargs), the instance being kept.
ShareNew(kind, kwargs) ==
    /\ Len(heap) < MaxEntities
    /\ LET w == New(kind, kwargs, shared, now)
       IN  /\ heap' = Append(heap, w.self)
           /\ shared' = w.shared
    /\ lastArgs' = kwargs
    /\ actor' = 0
    /\ UNCHANGED <<now, outcome, nval, xml, raw, tagsOut>>

\* heap[i].photos.append("x")
AppendPhoto(i) ==
    /\ hasattr(heap[i], "photos")
    /\ "x" \notin Range(getattr(heap[i], "photos"))
    /\ InPlace(i, "photos", Append(getattr(heap[i], "photos"), "x"))
    /\ actor' = i
    /\ UNCHANGED <<now, lastArgs, outcome, nval, xml, raw, tagsOut>>

\* heap[i].tag_list.append("x")
AppendTag(i) ==
    /\ hasattr(heap[i], "tag_list")
    /\ "x" \notin Range(getattr(heap[i], "tag_list"))
    /\ InPlace(i, "tag_list", Append(getattr(heap[i], "tag_list"), "x"))
    /\ actor' = i
    /\ UNCHANGED <<now, lastArgs, outcome, nval, xml, raw, tagsOut>>

\* heap[i].image_urls["large"] = "x"
SetImageUrl(i) ==
    /\ hasattr(heap[i], "image_urls")
    /\ LET urls == getattr(heap[i], "image_urls")
       IN  "large" \in DOMAIN urls => urls["large"] # "x"
    /\ InPlace(i, "image_urls", ("large" :> "x") @@ getattr(heap[i], "image_urls"))
    /\ actor' = i
    /\ UNCHANGED <<now, lastArgs, outcome, nval, xml, raw, tagsOut>>

\* heap[i]._required.append("x")
GrowRequired(i) ==
    /\ "x" \notin Range(getattr(heap[i], "_required"))
    /\ InPlace(i, "_required", Append(getattr(heap[i], "_required"), "x"))
    /\ actor' = i
    /\ UNCHANGED <<now, lastArgs, outcome, nval, xml, raw, tagsOut>>

NextShare ==
    \/ \E kind \in BaseKinds : \E kwargs \in KwargsOver(ShareFields[kind]) :
           ShareNew(kind, kwargs)
    \/ \E i \in DOMAIN heap : AppendPhoto(i)
    \/ \E i \in DOMAIN heap : AppendTag(i)
    \/ \E i \in DOMAIN heap : SetImageUrl(i)
    \/ \E i \in DOMAIN heap : GrowRequired(i)

SpecShare == Init /\ [][NextShare]_vars

\* What is seen through an instance: its _required list and its list and map
\* fields, the class-level objects being sh.
SeenThrough(sh, self) ==
    [a \in {x \in SharedAttrs : hasattr(self, x)} |-> GetAttrIn(sh, self, a)]

\* C10: a change made through one instance's fields, in place or not, and a
\* construction, leave what is seen through every other instance as it was.
C10_NoStateSharedBetweenInstances ==
    [][\A i \in DOMAIN heap :
          i # actor' => SeenThrough(shared', heap'[i]) = SeenThrough(shared, heap[i])]_vars

====
